---- MODULE Spec2Model ----
(***************************************************************************)
(* A model of the TOML decoder: the scanner (lex.go), the parser           *)
(* (parse.go) and the structural type system (type-check.go).              *)
(*                                                                         *)
(* Texts are sequences of one-character strings.  Go's zero-based byte     *)
(* offsets are kept as they are: input[i] in Go is input[i+1] here, and    *)
(* input[a:b] is SubSeq(input, a+1, b).  The alphabet is ASCII, so every   *)
(* rune is one byte wide.                                                  *)
(***************************************************************************)
EXTENDS Integers, Sequences, FiniteSets, TLC

VARIABLES
    input,   \* the text handed to parse
    lx,      \* the lexer: start, pos, width, line, state, items, stack
    p,       \* the parser: mapping, types, ordered, context, currentKey, approxLine, implicits
    pc,      \* where parse/topLevel/value stands while it waits for the next item
    key,     \* topLevel's local Key being collected for a key group header
    frames,  \* value's nested array loops: <<[array, types], ...>>, innermost last
    ret,     \* what parse returned: [p, err]
    types,   \* typeOfArray's argument (type registry specification)
    tresult  \* typeOfArray's outcome

vars == <<input, lx, p, pc, key, frames, ret, types, tresult>>

-----------------------------------------------------------------------------
(* Bounds of the model. *)

MaxLen == 3
MaxLines == 3
MaxDepth == 1
MaxElems == 3

-----------------------------------------------------------------------------
(* lex.go: item types, punctuation, runes. *)

itemError == "Error"
itemNIL == "NIL"
itemEOF == "EOF"
itemText == "Text"
itemString == "String"
itemBool == "Bool"
itemInteger == "Integer"
itemFloat == "Float"
itemArray == "Array"
itemDatetime == "DateTime"
itemKeyGroupStart == "KeyGroupStart"
itemKeyGroupEnd == "KeyGroupEnd"
itemKeyStart == "KeyStart"
itemArrayStart == "ArrayStart"
itemArrayEnd == "ArrayEnd"
itemCommentStart == "CommentStart"
itemRawString == "RawString"

\* the rune 0, which next() returns at the end of the input
eof == "<NUL>"
keyGroupStart == "["
keyGroupEnd == "]"
keyGroupSep == "."
keySep == "="
commentStart == "#"
stringStart == "\""
stringEnd == "\""

isWhitespace(r) == r = "\t" \/ r = " "

isNL(r) == r = "\n" \/ r = "\r"

Digits == {"0", "1", "2", "3", "4", "5", "6", "7", "8", "9"}

isDigit(r) == r \in Digits

escapeSpecial(c) == IF c = "\n" THEN "\\n" ELSE c

-----------------------------------------------------------------------------
(* lex.go: the lexer's primitives, each a function of the lexer record. *)

\* a state function value; nil is the nil stateFn
nil == <<>>
St(fn) == <<fn>>

\* lexSkip returns a closure over nextState
lexSkip(nextState) == <<"lexSkip", nextState>>

\* undo is no field of the Go struct: it records the calls of next and
\* backup.  It is "next" when the last of them was a next, which one backup
\* may undo, "none" when there is no next to undo, and "twice" for good
\* once backup has been called with no next to undo.
lex(data) ==
    [start |-> 0, pos |-> 0, width |-> 0, line |-> 1,
     state |-> St("lexTop"), items |-> <<>>, stack |-> <<>>, undo |-> "none"]

\* the rune the next call of next() returns
rune(l) == IF l.pos >= Len(input) THEN eof ELSE input[l.pos + 1]

next(l) ==
    IF l.pos >= Len(input)
    THEN [l EXCEPT !.width = 0,
                   !.undo = IF @ = "twice" THEN @ ELSE "next"]
    ELSE [l EXCEPT !.line = IF input[l.pos + 1] = "\n" THEN @ + 1 ELSE @,
                   !.width = 1,
                   !.pos = @ + 1,
                   !.undo = IF @ = "twice" THEN @ ELSE "next"]

ignore(l) == [l EXCEPT !.start = l.pos]

\* backup that leaves the line counter as it is
backupKeepLine(l) ==
    [l EXCEPT !.pos = l.pos - l.width,
              !.undo = IF @ = "next" THEN "none" ELSE "twice"]

backup(l) ==
    LET np == l.pos - l.width
    IN [l EXCEPT !.pos = np,
                 !.line = IF np < Len(input) /\ input[np + 1] = "\n"
                          THEN @ - 1 ELSE @,
                 !.undo = IF @ = "next" THEN "none" ELSE "twice"]

peek(l) == backup(next(l))

\* push that stores nothing
pushNothing(l, state) == l

push(l, state) == [l EXCEPT !.stack = Append(@, state)]

emit(l, typ) ==
    [l EXCEPT !.items = Append(@, [typ |-> typ,
                                   val |-> SubSeq(input, l.start + 1, l.pos),
                                   line |-> l.line]),
              !.start = l.pos]

\* errorf handing the error item out and going on from the top-level state
errorfResume(l, msg) ==
    [l EXCEPT !.items = Append(@, [typ |-> itemError, val |-> msg, line |-> l.line]),
              !.state = St("lexTop")]

\* the message is kept as <<format, arguments...>>; rune arguments go
\* through escapeSpecial
errorf(l, msg) ==
    [l EXCEPT !.items = Append(@, [typ |-> itemError, val |-> msg, line |-> l.line]),
              !.state = nil]

goto(l, state) == [l EXCEPT !.state = state]

\* pop: the lexer after the pop, its state set to the state popped
pop(l) ==
    IF Len(l.stack) = 0
    THEN errorf(l, <<"BUG in lexer: no states to pop.">>)
    ELSE [l EXCEPT !.state = l.stack[Len(l.stack)],
                   !.stack = SubSeq(l.stack, 1, Len(l.stack) - 1)]

-----------------------------------------------------------------------------
(* lex.go: the state functions. *)

lexTop(l) ==
    LET r == rune(l)
        l1 == next(l)
    IN IF isWhitespace(r) \/ isNL(r) THEN goto(l1, lexSkip(St("lexTop")))
       ELSE IF r = commentStart THEN goto(push(l1, St("lexTop")), St("lexCommentStart"))
       ELSE IF r = keyGroupStart THEN goto(emit(l1, itemKeyGroupStart), St("lexKeyGroupStart"))
       ELSE IF r = eof
            THEN IF l1.pos > l1.start
                 THEN errorf(l1, <<"Unexpected EOF.">>)
                 ELSE goto(emit(l1, itemEOF), nil)
       ELSE goto(push(backup(l1), St("lexTopValueEnd")), St("lexKeyStart"))

lexTopValueEnd(l) ==
    LET r == rune(l)
        l1 == next(l)
    IN IF r = commentStart THEN goto(push(l1, St("lexTop")), St("lexCommentStart"))
       ELSE IF isWhitespace(r) THEN goto(l1, St("lexTopValueEnd"))
       ELSE IF isNL(r) THEN goto(ignore(l1), St("lexTop"))
       ELSE IF r = eof THEN goto(ignore(l1), St("lexTop"))
       ELSE errorf(l1, <<"Expected a top-level value to end with a new line, comment or EOF, but got '%s' instead.",
                         escapeSpecial(r)>>)

lexKeyGroupStart(l) ==
    LET r == rune(l)
        l1 == next(l)
    IN IF r = keyGroupEnd
       THEN errorf(l1, <<"Unexpected end of key group. (Key groups cannot be empty.)">>)
       ELSE IF r = keyGroupSep
       THEN errorf(l1, <<"Unexpected key group separator. (Key groups cannot be empty.)">>)
       ELSE goto(l1, St("lexKeyGroup"))

\* lexKeyGroup without the ignore() after a separator: the next segment's
\* text starts with the '.'
lexKeyGroupKeepSep(l) ==
    LET r == rune(l)
        l1 == peek(l)
    IN IF r = keyGroupEnd
       THEN goto(emit(next(emit(l1, itemText)), itemKeyGroupEnd), St("lexTop"))
       ELSE IF r = keyGroupSep
       THEN goto(next(emit(l1, itemText)), St("lexKeyGroupStart"))
       ELSE goto(next(l1), St("lexKeyGroup"))

lexKeyGroup(l) ==
    LET r == rune(l)
        l1 == peek(l)
    IN IF r = keyGroupEnd
       THEN goto(emit(next(emit(l1, itemText)), itemKeyGroupEnd), St("lexTop"))
       ELSE IF r = keyGroupSep
       THEN goto(ignore(next(emit(l1, itemText))), St("lexKeyGroupStart"))
       ELSE goto(next(l1), St("lexKeyGroup"))

lexKeyStart(l) ==
    LET r == rune(l)
        l1 == peek(l)
    IN IF r = keySep
       THEN errorf(l1, <<"Unexpected key separator '%s'.", escapeSpecial(keySep)>>)
       ELSE IF isWhitespace(r) \/ isNL(r)
       THEN errorf(l1, <<"Unexpected whitespace '%s' at start of key.", escapeSpecial(r)>>)
       ELSE goto(next(emit(l1, itemKeyStart)), St("lexKey"))

lexKey(l) ==
    LET r == rune(l)
        l1 == peek(l)
    IN IF isWhitespace(r) \/ isNL(r)
       THEN goto(emit(l1, itemText), St("lexKeyEnd"))
       ELSE goto(next(l1), St("lexKey"))

lexKeyEnd(l) ==
    LET r == rune(l)
        l1 == next(l)
    IN IF isWhitespace(r) \/ isNL(r) THEN goto(l1, lexSkip(St("lexKeyEnd")))
       ELSE IF r = keySep THEN goto(l1, St("lexValue"))
       ELSE errorf(l1, <<"Expected key separator '%s', but got '%s' instead.",
                         escapeSpecial(keySep), escapeSpecial(r)>>)

lexValue(l) ==
    LET r == rune(l)
        l1 == next(l)
    IN IF isWhitespace(r) THEN goto(l1, lexSkip(St("lexValue")))
       ELSE IF r = stringStart THEN goto(ignore(l1), St("lexString"))
       ELSE IF r = "t" THEN goto(l1, St("lexTrue"))
       ELSE IF r = "f" THEN goto(l1, St("lexFalse"))
       ELSE IF r = "-" THEN goto(l1, St("lexNumberStart"))
       ELSE IF isDigit(r) THEN goto(backup(l1), St("lexNumberStart"))
       ELSE IF r = "." THEN errorf(l1, <<"Floats must start with a digit, not '.'.">>)
       ELSE errorf(l1, <<"Expected value but found '%s' instead.", escapeSpecial(r)>>)

lexString(l) ==
    LET r == rune(l)
        l1 == next(l)
    IN IF isNL(r) THEN errorf(l1, <<"Strings cannot contain new lines.">>)
       ELSE IF r = "\\" THEN goto(l1, St("lexStringEscape"))
       ELSE IF r = stringEnd THEN pop(ignore(next(emit(backup(l1), itemString))))
       ELSE goto(l1, St("lexString"))

\* the escape codes the scanner lets through
lexEscapes == {"0", "t", "n", "r", "\"", "\\"}

lexStringEscape(l) ==
    LET r == rune(l)
        l1 == next(l)
    IN IF r \in lexEscapes THEN goto(l1, St("lexString"))
       ELSE errorf(l1, <<"Invalid escape character '%s'. Only the following escape characters are allowed: \\0, \\t, \\n, \\r, \\\", \\\\.",
                         escapeSpecial(r)>>)

lexNumberStart(l) ==
    LET r == rune(l)
        l1 == next(l)
    IN IF ~isDigit(r)
       THEN IF r = "."
            THEN errorf(l1, <<"Floats must start with a digit, not '.'.">>)
            ELSE errorf(l1, <<"Expected a digit but got '%s'.", escapeSpecial(r)>>)
       ELSE goto(l1, St("lexNumber"))

lexNumber(l) ==
    LET r == rune(l)
        l1 == next(l)
    IN IF isDigit(r) THEN goto(l1, St("lexNumber"))
       ELSE IF r = "." THEN goto(l1, St("lexFloatStart"))
       ELSE IF isWhitespace(r) \/ isNL(r) THEN pop(emit(backup(l1), itemInteger))
       ELSE errorf(l1, <<"Expected a digit, '.' or the end of a value, but got '%s' instead.",
                         escapeSpecial(r)>>)

lexFloatStart(l) ==
    LET r == rune(l)
        l1 == next(l)
    IN IF ~isDigit(r)
       THEN errorf(l1, <<"Floats must have a digit after the '.', but got '%s' instead.",
                         escapeSpecial(r)>>)
       ELSE goto(l1, St("lexFloat"))

lexFloat(l) ==
    LET r == rune(l)
        l1 == next(l)
    IN IF isDigit(r) THEN goto(l1, St("lexFloat"))
       ELSE IF isWhitespace(r) \/ isNL(r) THEN pop(emit(backup(l1), itemFloat))
       ELSE errorf(l1, <<"Expected a digit or the end of a value, but got '%s' instead.",
                         escapeSpecial(r)>>)

lexTrue(l) ==
    LET r1 == rune(l)
        l1 == next(l)
        r2 == rune(l1)
        l2 == next(l1)
        r3 == rune(l2)
        l3 == next(l2)
    IN IF r1 # "r" THEN errorf(l1, <<"Expected 'tr', but found 't%s' instead.", escapeSpecial(r1)>>)
       ELSE IF r2 # "u" THEN errorf(l2, <<"Expected 'tru', but found 'tr%s' instead.", escapeSpecial(r2)>>)
       ELSE IF r3 # "e" THEN errorf(l3, <<"Expected 'true', but found 'tru%s' instead.", escapeSpecial(r3)>>)
       ELSE pop(emit(l3, itemBool))

lexFalse(l) ==
    LET r1 == rune(l)
        l1 == next(l)
        r2 == rune(l1)
        l2 == next(l1)
        r3 == rune(l2)
        l3 == next(l2)
        r4 == rune(l3)
        l4 == next(l3)
    IN IF r1 # "a" THEN errorf(l1, <<"Expected 'fa', but found 'f%s' instead.", escapeSpecial(r1)>>)
       ELSE IF r2 # "l" THEN errorf(l2, <<"Expected 'fal', but found 'fa%s' instead.", escapeSpecial(r2)>>)
       ELSE IF r3 # "s" THEN errorf(l3, <<"Expected 'fals', but found 'fal%s' instead.", escapeSpecial(r3)>>)
       ELSE IF r4 # "e" THEN errorf(l4, <<"Expected 'false', but found 'fals%s' instead.", escapeSpecial(r4)>>)
       ELSE pop(emit(l4, itemBool))

lexCommentStart(l) == goto(emit(ignore(l), itemCommentStart), St("lexComment"))

\* lexComment returning to the state on the stack without emitting the
\* comment's text
lexCommentNoText(l) ==
    LET r == rune(l)
        l1 == peek(l)
    IN IF isNL(r) \/ r = eof
       THEN pop(l1)
       ELSE goto(next(l1), St("lexComment"))

lexComment(l) ==
    LET r == rune(l)
        l1 == peek(l)
    IN IF isNL(r) \/ r = eof
       THEN pop(emit(l1, itemText))
       ELSE goto(next(l1), St("lexComment"))

\* the closure lexSkip returned
lexSkipRun(l) == goto(ignore(l), l.state[2])

\* lx.state(lx): the call of the current state function in nextItem
stateFn(l) ==
    CASE l.state[1] = "lexTop" -> lexTop(l)
      [] l.state[1] = "lexTopValueEnd" -> lexTopValueEnd(l)
      [] l.state[1] = "lexKeyGroupStart" -> lexKeyGroupStart(l)
      [] l.state[1] = "lexKeyGroup" -> lexKeyGroup(l)
      [] l.state[1] = "lexKeyStart" -> lexKeyStart(l)
      [] l.state[1] = "lexKey" -> lexKey(l)
      [] l.state[1] = "lexKeyEnd" -> lexKeyEnd(l)
      [] l.state[1] = "lexValue" -> lexValue(l)
      [] l.state[1] = "lexString" -> lexString(l)
      [] l.state[1] = "lexStringEscape" -> lexStringEscape(l)
      [] l.state[1] = "lexNumberStart" -> lexNumberStart(l)
      [] l.state[1] = "lexNumber" -> lexNumber(l)
      [] l.state[1] = "lexFloatStart" -> lexFloatStart(l)
      [] l.state[1] = "lexFloat" -> lexFloat(l)
      [] l.state[1] = "lexTrue" -> lexTrue(l)
      [] l.state[1] = "lexFalse" -> lexFalse(l)
      [] l.state[1] = "lexCommentStart" -> lexCommentStart(l)
      [] l.state[1] = "lexComment" -> lexComment(l)
      [] l.state[1] = "lexSkip" -> lexSkipRun(l)

-----------------------------------------------------------------------------
(* type-check.go: structural types.  A type is [kind, name, of]: of is the *)
(* list components() returns.                                              *)

tomlBaseType(n) == [kind |-> "base", name |-> n, of |-> <<>>]
tomlInteger == tomlBaseType("Integer")
tomlFloat == tomlBaseType("Float")
tomlDatetime == tomlBaseType("Datetime")
tomlString == tomlBaseType("String")
tomlBool == tomlBaseType("Bool")
tomlHash == tomlBaseType("Hash")
tomlPolymorphic == [kind |-> "poly", name |-> "a", of |-> <<>>]
tomlArrayType(t) == [kind |-> "array", name |-> "Array", of |-> <<t>>]
tomlTupleType(ts) == [kind |-> "tuple", name |-> "Tuple", of |-> ts]

name(t) == t.name
components(t) == t.of
polymorphic(t) == t.kind = "poly"

\* String(): the type's text, as a list of pieces
RECURSIVE TypeString(_)
TypeString(t) ==
    IF t.kind = "array" THEN <<"[">> \o TypeString(t.of[1]) \o <<"]">>
    ELSE IF t.kind = "tuple" THEN <<"(", t.of, ")">>
    ELSE <<name(t)>>

RECURSIVE typeEqual(_, _)
typeEqual(t1, t2) ==
    IF polymorphic(t1) \/ polymorphic(t2) THEN TRUE
    ELSE IF name(t1) # name(t2) THEN FALSE
    ELSE LET cs1 == components(t1)
             cs2 == components(t2)
         IN IF Len(cs1) # Len(cs2) THEN FALSE
            ELSE \A i \in 1..Len(cs1) : typeEqual(cs1[i], cs2[i])

\* typeOfArray going through the whole list and reporting the last type
\* that differs from the first
typeOfArrayLastMismatch(ts) ==
    IF Len(ts) = 0
    THEN [ok |-> TRUE, typ |-> tomlArrayType(tomlPolymorphic), msg |-> <<>>]
    ELSE LET theType == ts[1]
             bad == {i \in 2..Len(ts) : ~typeEqual(theType, ts[i])}
         IN IF bad = {}
            THEN [ok |-> TRUE, typ |-> tomlArrayType(theType), msg |-> <<>>]
            ELSE LET i == CHOOSE j \in bad : \A k \in bad : j >= k
                 IN [ok |-> FALSE, typ |-> tomlPolymorphic,
                     msg |-> <<"Array contains values of type '%s' and '%s', but arrays must be homogeneous.",
                               TypeString(theType), TypeString(ts[i])>>]

\* typeOfArray: [ok, typ] or, when it panics, [ok |-> FALSE, msg]
typeOfArray(ts) ==
    IF Len(ts) = 0
    THEN [ok |-> TRUE, typ |-> tomlArrayType(tomlPolymorphic), msg |-> <<>>]
    ELSE LET theType == ts[1]
             bad == {i \in 2..Len(ts) : ~typeEqual(theType, ts[i])}
         IN IF bad = {}
            THEN [ok |-> TRUE, typ |-> tomlArrayType(theType), msg |-> <<>>]
            ELSE LET i == CHOOSE j \in bad : \A k \in bad : j <= k
                 IN [ok |-> FALSE, typ |-> tomlPolymorphic,
                     msg |-> <<"Array contains values of type '%s' and '%s', but arrays must be homogeneous.",
                               TypeString(theType), TypeString(ts[i])>>]

typeOfTuple(ts) == tomlTupleType(ts)

-----------------------------------------------------------------------------
(* The standard library calls of parser.value, on the token texts.         *)

DigitVal(c) ==
    CASE c = "0" -> 0 [] c = "1" -> 1 [] c = "2" -> 2 [] c = "3" -> 3 [] c = "4" -> 4
      [] c = "5" -> 5 [] c = "6" -> 6 [] c = "7" -> 7 [] c = "8" -> 8 [] c = "9" -> 9

RECURSIVE StripZeros(_)
StripZeros(ds) ==
    IF Len(ds) > 1 /\ ds[1] = "0" THEN StripZeros(Tail(ds)) ELSE ds

\* a < b for digit strings without leading zeros
DigitsLess(a, b) ==
    \/ Len(a) < Len(b)
    \/ /\ Len(a) = Len(b)
       /\ \E i \in 1..Len(a) :
             /\ DigitVal(a[i]) < DigitVal(b[i])
             /\ \A j \in 1..(i - 1) : a[j] = b[j]

\* 2^63
TwoTo63 ==
    <<"9", "2", "2", "3", "3", "7", "2", "0", "3", "6",
      "8", "5", "4", "7", "7", "5", "8", "0", "8">>

AllDigits(s) == Len(s) > 0 /\ \A i \in 1..Len(s) : isDigit(s[i])

\* strconv.ParseInt(s, 10, 64): err is "nil", "range" or "syntax"; num is the
\* value in canonical decimal notation
ParseInt(s) ==
    LET signed == Len(s) > 0 /\ s[1] \in {"+", "-"}
        neg == Len(s) > 0 /\ s[1] = "-"
        ds == IF signed THEN Tail(s) ELSE s
        mag == StripZeros(ds)
    IN IF ~AllDigits(ds) THEN [err |-> "syntax", num |-> <<>>]
       ELSE IF ~neg /\ ~DigitsLess(mag, TwoTo63) THEN [err |-> "range", num |-> <<>>]
       ELSE IF neg /\ DigitsLess(TwoTo63, mag) THEN [err |-> "range", num |-> <<>>]
       ELSE [err |-> "nil",
             num |-> IF neg /\ mag # <<"0">> THEN <<"-">> \o mag ELSE mag]

\* strconv.ParseFloat(s, 64) on plain decimal notation, the only notation
\* the alphabet of the model can spell; a literal of fewer than 300 digits
\* is never out of range
ParseFloat(s) ==
    LET signed == Len(s) > 0 /\ s[1] \in {"+", "-"}
        body == IF signed THEN Tail(s) ELSE s
        dots == {i \in 1..Len(body) : body[i] = "."}
        ok == /\ Cardinality(dots) <= 1
              /\ \E i \in 1..Len(body) : isDigit(body[i])
              /\ \A i \in 1..Len(body) : isDigit(body[i]) \/ body[i] = "."
    IN IF ok THEN [err |-> "nil", num |-> s] ELSE [err |-> "syntax", num |-> <<>>]

TwoDigits(s, i) == DigitVal(s[i]) * 10 + DigitVal(s[i + 1])

\* time.Parse("2006-01-02T15:04:05Z", s) succeeds
TimeParseOK(s) ==
    /\ Len(s) = 20
    /\ \A i \in {1, 2, 3, 4, 6, 7, 9, 10, 12, 13, 15, 16, 18, 19} : isDigit(s[i])
    /\ s[5] = "-" /\ s[8] = "-" /\ s[11] = "T"
    /\ s[14] = ":" /\ s[17] = ":" /\ s[20] = "Z"
    /\ TwoDigits(s, 6) \in 1..12
    /\ TwoDigits(s, 9) \in 1..31
    /\ TwoDigits(s, 12) \in 0..23
    /\ TwoDigits(s, 15) \in 0..59
    /\ TwoDigits(s, 18) \in 0..59

-----------------------------------------------------------------------------
(* parse.go: the parser.  p.mapping, a tree of nested maps, is kept as the *)
(* function from each key path present in the tree to the value stored     *)
(* there; a table is the value Hash and its entries are the paths below    *)
(* it.  A value is [kind, v].  The outcome of a parser routine is          *)
(* [st, p, err]: st is "ok", "panic" (p.panic, a parseError), "bug"        *)
(* (p.bug, log.Fatalf) or "crash" (a Go run-time panic).                   *)

Hash == [kind |-> "Hash", v |-> <<>>]

\* Key.String(), the index of p.types and p.implicits: one index per key path
KeyString(k) == k

\* Key.add
KeyAdd(k, piece) == Append(k, piece)

NoErr == [msg |-> <<>>, approxLine |-> 0, key |-> <<>>]

current(q) ==
    IF Len(q.currentKey) = 0 THEN KeyString(q.context)
    ELSE IF Len(q.context) = 0 THEN KeyString(<<q.currentKey>>)
    ELSE KeyString(KeyAdd(q.context, q.currentKey))

Ok(q) == [st |-> "ok", p |-> q, err |-> NoErr]

panic(q, msg) ==
    [st |-> "panic", p |-> q,
     err |-> [msg |-> msg, approxLine |-> q.approxLine, key |-> current(q)]]

bug(q, msg) ==
    [st |-> "bug", p |-> q,
     err |-> [msg |-> msg, approxLine |-> q.approxLine, key |-> current(q)]]

crash(q, msg) ==
    [st |-> "crash", p |-> q,
     err |-> [msg |-> msg, approxLine |-> q.approxLine, key |-> current(q)]]

addImplicit(q, k) ==
    [q EXCEPT !.implicits = (KeyString(k) :> TRUE) @@ @]

removeImplicit(q, k) ==
    [q EXCEPT !.implicits = (KeyString(k) :> FALSE) @@ @]

isImplicit(q, k) ==
    KeyString(k) \in DOMAIN q.implicits /\ q.implicits[KeyString(k)]

\* the walk of setValue down p.context: the first prefix of the context
\* that is missing or is no table, 0 when there is none
BadContext(q) ==
    LET bad == {i \in 1..Len(q.context) :
                   \/ SubSeq(q.context, 1, i) \notin DOMAIN q.mapping
                   \/ q.mapping[SubSeq(q.context, 1, i)].kind # "Hash"}
    IN IF bad = {} THEN 0 ELSE CHOOSE i \in bad : \A j \in bad : i <= j

\* setValue storing the fresh empty table over a claimed implicit table:
\* what the table held is gone
setValueFreshTable(q, k, value) ==
    LET keyContext == Append(q.context, k)
    IN IF keyContext \in DOMAIN q.mapping
       THEN IF isImplicit(q, keyContext)
            THEN Ok(removeImplicit(
                     [q EXCEPT !.mapping =
                         [path \in {x \in DOMAIN @ :
                                       ~(Len(x) > Len(keyContext)
                                         /\ SubSeq(x, 1, Len(keyContext)) = keyContext)}
                            |-> IF path = keyContext THEN value ELSE @[path]]],
                     keyContext))
            ELSE panic(q, <<"Key '%s' has already been defined.", keyContext>>)
       ELSE Ok([q EXCEPT !.mapping = (keyContext :> value) @@ @])

\* setValue without the duplicate check: a second definition overwrites the first
setValueOverwrite(q, k, value) ==
    LET keyContext == Append(q.context, k)
    IN IF keyContext \in DOMAIN q.mapping /\ isImplicit(q, keyContext)
       THEN Ok(removeImplicit(q, keyContext))
       ELSE Ok([q EXCEPT !.mapping = [path \in DOMAIN @ \cup {keyContext} |->
                                        IF path = keyContext THEN value ELSE @[path]]])

\* setValue without removeImplicit: a claimed table stays flagged implicit
setValueKeepImplicit(q, k, value) ==
    LET keyContext == Append(q.context, k)
    IN IF keyContext \in DOMAIN q.mapping
       THEN IF isImplicit(q, keyContext)
            THEN Ok(q)
            ELSE panic(q, <<"Key '%s' has already been defined.", keyContext>>)
       ELSE Ok([q EXCEPT !.mapping = (keyContext :> value) @@ @])

setValue(q, k, value) ==
    LET keyContext == Append(q.context, k)
        b == BadContext(q)
    IN IF b # 0
       THEN IF SubSeq(q.context, 1, b) \notin DOMAIN q.mapping
            THEN bug(q, <<"Context for key '%s' has not been established.", SubSeq(q.context, 1, b)>>)
            ELSE bug(q, <<"Expected hash to have type 'map[string]interface{}', but it has '%T' instead.">>)
       ELSE IF keyContext \in DOMAIN q.mapping
       THEN IF isImplicit(q, keyContext)
            THEN Ok(removeImplicit(q, keyContext))
            ELSE panic(q, <<"Key '%s' has already been defined.", keyContext>>)
       ELSE Ok([q EXCEPT !.mapping = (keyContext :> value) @@ @])

setType(q, k, typ) ==
    LET keyContext == IF Len(k) > 0 THEN Append(q.context, k) ELSE q.context
        fullkey == KeyString(keyContext)
    IN IF fullkey \in DOMAIN q.types
       THEN bug(q, <<"Type for key '%s' has already been set, but it wasn't detected as a duplicate in setValue.", fullkey>>)
       ELSE Ok([q EXCEPT !.types = (fullkey :> typ) @@ @])

\* the loop of establishContext without addImplicit: a missing ancestor is
\* created but not flagged
RECURSIVE establishImplicitsUnflagged(_, _, _)
establishImplicitsUnflagged(q, k, i) ==
    IF i > Len(k) - 1 THEN Ok(q)
    ELSE LET keyContext == SubSeq(k, 1, i)
             q1 == IF keyContext \in DOMAIN q.mapping THEN q
                   ELSE [q EXCEPT !.mapping = (keyContext :> Hash) @@ @]
         IN IF q1.mapping[keyContext].kind # "Hash"
            THEN panic(q1, <<"Key '%s' was already created as a hash.", keyContext>>)
            ELSE establishImplicitsUnflagged(q1, k, i + 1)

\* the loop of establishContext over key[0 : len(key)-1], from the i-th piece on
RECURSIVE establishImplicits(_, _, _)
establishImplicits(q, k, i) ==
    IF i > Len(k) - 1 THEN Ok(q)
    ELSE LET keyContext == SubSeq(k, 1, i)
             q1 == IF keyContext \in DOMAIN q.mapping THEN q
                   ELSE [addImplicit(q, keyContext)
                            EXCEPT !.mapping = (keyContext :> Hash) @@ @]
         IN IF q1.mapping[keyContext].kind # "Hash"
            THEN panic(q1, <<"Key '%s' was already created as a hash.", keyContext>>)
            ELSE establishImplicits(q1, k, i + 1)

establishContext(q, k) ==
    LET o1 == establishImplicits(q, k, 1)
    IN IF o1.st # "ok" THEN o1
       ELSE LET q2 == [o1.p EXCEPT !.context = SubSeq(k, 1, Len(k) - 1)]
                o2 == setValue(q2, k[Len(k)], Hash)
            IN IF o2.st # "ok" THEN o2
               ELSE Ok([o2.p EXCEPT !.context = Append(@, k[Len(k)])])

HexDigits == Digits \cup {"a", "b", "c", "d", "e", "f", "A", "B", "C", "D", "E", "F"}

\* asciiEscapeToUnicode: the code point, or <<>> when ParseUint fails
asciiEscapeToUnicode(bs) ==
    IF \A i \in 1..Len(bs) : bs[i] \in HexDigits THEN <<"U+">> \o bs ELSE <<>>

Backspace == "<BS>"
FormFeed == "\f"

RECURSIVE replaceEscapesFrom(_, _, _, _)
replaceEscapesFrom(q, s, r, replaced) ==
    IF r >= Len(s) THEN [st |-> "ok", s |-> replaced]
    ELSE IF s[r + 1] # "\\" THEN replaceEscapesFrom(q, s, r + 1, Append(replaced, s[r + 1]))
    ELSE IF r + 1 >= Len(s) THEN [st |-> "bug", s |-> <<"Escape sequence at end of string.">>]
    ELSE LET c == s[r + 2]
         IN CASE c = "b" -> replaceEscapesFrom(q, s, r + 2, Append(replaced, Backspace))
              [] c = "t" -> replaceEscapesFrom(q, s, r + 2, Append(replaced, "\t"))
              [] c = "n" -> replaceEscapesFrom(q, s, r + 2, Append(replaced, "\n"))
              [] c = "f" -> replaceEscapesFrom(q, s, r + 2, Append(replaced, FormFeed))
              [] c = "r" -> replaceEscapesFrom(q, s, r + 2, Append(replaced, "\r"))
              [] c = "\"" -> replaceEscapesFrom(q, s, r + 2, Append(replaced, "\""))
              [] c = "\\" -> replaceEscapesFrom(q, s, r + 2, Append(replaced, "\\"))
              [] c = "u" ->
                   IF r + 6 > Len(s) THEN [st |-> "crash", s |-> <<"slice bounds out of range">>]
                   ELSE IF asciiEscapeToUnicode(SubSeq(s, r + 3, r + 6)) = <<>>
                   THEN [st |-> "bug", s |-> <<"Could not parse '%s' as a hexadecimal number, but the lexer claims it's OK: %s">>]
                   ELSE replaceEscapesFrom(q, s, r + 6,
                            Append(replaced, asciiEscapeToUnicode(SubSeq(s, r + 3, r + 6))))
              [] c = "U" ->
                   IF r + 10 > Len(s) THEN [st |-> "crash", s |-> <<"slice bounds out of range">>]
                   ELSE IF asciiEscapeToUnicode(SubSeq(s, r + 3, r + 10)) = <<>>
                   THEN [st |-> "bug", s |-> <<"Could not parse '%s' as a hexadecimal number, but the lexer claims it's OK: %s">>]
                   ELSE replaceEscapesFrom(q, s, r + 10,
                            Append(replaced, asciiEscapeToUnicode(SubSeq(s, r + 3, r + 10))))
              [] OTHER -> [st |-> "bug", s |-> <<"Expected valid escape code after \\, but got %q.", c>>]

replaceEscapes(q, str) == replaceEscapesFrom(q, str, 0, <<>>)

\* typeOfPrimitive: the type, or "" when it reports a bug
typeOfPrimitive(it) ==
    CASE it.typ = itemInteger -> tomlInteger
      [] it.typ = itemFloat -> tomlFloat
      [] it.typ = itemDatetime -> tomlDatetime
      [] it.typ = itemString -> tomlString
      [] it.typ = itemBool -> tomlBool
      [] OTHER -> ""

\* parser.value on an item that starts no array: [st, val, typ, msg]
valueOfPrimitive(q, it) ==
    LET Val(k, v) == [st |-> "ok", val |-> [kind |-> k, v |-> v],
                      typ |-> typeOfPrimitive(it), msg |-> <<>>]
        Fail(st, msg) == [st |-> st, val |-> Hash, typ |-> tomlPolymorphic, msg |-> msg]
    IN CASE it.typ = itemString ->
              LET e == replaceEscapes(q, it.val)
              IN IF e.st = "ok" THEN Val("String", e.s) ELSE Fail(e.st, e.s)
         [] it.typ = itemRawString ->
              Fail("bug", <<"Cannot infer primitive type of lex item '%s'.", it.typ, it.val>>)
         [] it.typ = itemBool ->
              IF it.val = <<"t", "r", "u", "e">> THEN Val("Bool", <<"true">>)
              ELSE IF it.val = <<"f", "a", "l", "s", "e">> THEN Val("Bool", <<"false">>)
              ELSE Fail("bug", <<"Expected boolean value, but got '%s'.", it.val>>)
         [] it.typ = itemInteger ->
              LET n == ParseInt(it.val)
              IN IF n.err = "nil" THEN Val("Integer", n.num)
                 ELSE IF n.err = "range"
                 THEN Fail("panic", <<"Integer '%s' is out of the range of 64-bit signed integers.", it.val>>)
                 ELSE Fail("bug", <<"Expected integer value, but got '%s'.", it.val>>)
         [] it.typ = itemFloat ->
              LET n == ParseFloat(it.val)
              IN IF n.err = "nil" THEN Val("Float", n.num)
                 ELSE IF n.err = "range"
                 THEN Fail("panic", <<"Float '%s' is out of the range of 64-bit IEEE-754 floating-point numbers.", it.val>>)
                 ELSE Fail("bug", <<"Expected float value, but got '%s'.", it.val>>)
         [] it.typ = itemDatetime ->
              IF TimeParseOK(it.val) THEN Val("Datetime", it.val)
              ELSE Fail("bug", <<"Expected Zulu formatted DateTime, but got '%s'.", it.val>>)
         [] OTHER -> Fail("bug", <<"Unexpected value type: %s", it.typ>>)

\* topLevel appending the bare key, without the context, to p.ordered
setKeyValueBareKey(q, val, typ) ==
    LET o1 == setValue(q, q.currentKey, val)
        o2 == IF o1.st = "ok" THEN setType(o1.p, q.currentKey, typ) ELSE o1
    IN IF o2.st # "ok" THEN o2
       ELSE Ok([o2.p EXCEPT !.ordered = Append(@, <<q.currentKey>>),
                            !.currentKey = <<>>])

\* the rest of topLevel's itemKeyStart case once value has returned
setKeyValue(q, val, typ) ==
    LET o1 == setValue(q, q.currentKey, val)
        o2 == IF o1.st = "ok" THEN setType(o1.p, q.currentKey, typ) ELSE o1
    IN IF o2.st # "ok" THEN o2
       ELSE Ok([o2.p EXCEPT !.ordered = Append(@, KeyAdd(o2.p.context, q.currentKey)),
                            !.currentKey = <<>>])

\* topLevel appending the header to p.ordered before establishContext has
\* checked it
setKeyGroupAppendFirst(q, k) ==
    LET q0 == [q EXCEPT !.ordered = Append(@, k)]
        o1 == establishContext(q0, k)
    IN IF o1.st = "ok" THEN setType(o1.p, <<>>, tomlHash) ELSE o1

\* the rest of topLevel's itemKeyGroupStart case once the header is read
setKeyGroup(q, k) ==
    LET o1 == establishContext(q, k)
        o2 == IF o1.st = "ok" THEN setType(o1.p, <<>>, tomlHash) ELSE o1
    IN IF o2.st # "ok" THEN o2
       ELSE Ok([o2.p EXCEPT !.ordered = Append(@, k)])

-----------------------------------------------------------------------------
(* The texts parse is run on. *)

Chars == {"a", "=", " ", "\n", "[", "]", ".", "#", "\"", "\\", "1", eof}

ShortTexts == UNION {[1..n -> Chars] : n \in 0..MaxLen}

Lines ==
    << <<"[", "a", "]", "\n">>,
       <<"[", "a", ".", "b", "]", "\n">>,
       <<"[", "a", ".", "b", ".", "c", "]", "\n">>,
       <<"b", " ", "=", " ", "1", "\n">>,
       <<"b", " ", "=", " ", "\"", "x", "\"", "\n">>,
       <<"b", " ", "=", " ", "t", "r", "u", "e", "\n">>,
       <<"a", " ", "=", " ", "f", "a", "l", "s", "e", " ", "#", " ", "c", "\n">>,
       <<"b", " ", "=", " ", "1", ".", "5", "\n">> >>

RECURSIVE DocOf(_)
DocOf(ix) == IF Len(ix) = 0 THEN <<>> ELSE Lines[Head(ix)] \o DocOf(Tail(ix))

\* the lists of line numbers the documents are made of
DocIndexes == UNION {[1..n -> 1..Len(Lines)] : n \in 1..MaxLines}

Docs == {DocOf(ix) : ix \in DocIndexes}

\* k = <value>, with and without a line break at the end
KeyIs(v) == <<"k", " ", "=", " ">> \o v \o <<"\n">>

MaxInt64 ==
    <<"9", "2", "2", "3", "3", "7", "2", "0", "3", "6",
      "8", "5", "4", "7", "7", "5", "8", "0", "7">>

EscapeCodes == {"0", "t", "n", "r", "\"", "\\", "b", "f", "u", "q", "a", " "}

ArrayEmpty == KeyIs(<<"[", "]">>)
ArrayOfIntegers == KeyIs(<<"[", "1", ",", "2", ",", "3", "]">>)
ArrayMixed == KeyIs(<<"[", "1", ",", "\"", "a", "\"", "]">>)
DatetimeText ==
    <<"1", "9", "7", "9", "-", "0", "5", "-", "2", "7", "T",
      "0", "7", ":", "3", "2", ":", "0", "0", "Z">>
FourEscapes == KeyIs(<<"\"", "\\", "t", "\\", "n", "\\", "\\", "\\", "\"", "\"">>)

UnterminatedString == <<"k", " ", "=", " ", "\"", "a">>

\* [fruit], name, [fruit.physical], color, shape
Fruit == <<"f", "r", "u", "i", "t">>
Physical == <<"p", "h", "y", "s", "i", "c", "a", "l">>
FruitDoc ==
    <<"[">> \o Fruit \o <<"]", "\n">>
    \o <<"n", "a", "m", "e", " ", "=", " ", "\"", "x", "\"", "\n">>
    \o <<"[">> \o Fruit \o <<".">> \o Physical \o <<"]", "\n">>
    \o <<"c", "o", "l", "o", "r", " ", "=", " ", "\"", "r", "\"", "\n">>
    \o <<"s", "h", "a", "p", "e", " ", "=", " ", "\"", "o", "\"", "\n">>

IntegerTexts ==
    {MaxInt64, TwoTo63, <<"-">> \o TwoTo63,
     <<"-", "9", "2", "2", "3", "3", "7", "2", "0", "3", "6",
       "8", "5", "4", "7", "7", "5", "8", "0", "9">>,
     <<"0", "0", "7">>, <<"-", "0">>, <<"5">>}

\* two key-values on one line
TwoOnOneLine == <<"b", " ", "=", " ", "1", " ", "c", " ", "=", " ", "2", "\n">>

\* two key-values on one line, the rune 0 between them
TwoAroundNUL == <<"b", " ", "=", " ", "1", " ", eof, "c", " ", "=", " ", "2", "\n">>

\* a boolean and a float right after the key separator
BoolAfterSep == <<"k", " ", "=", "t", "r", "u", "e", "\n">>
FloatAfterSep == <<"k", " ", "=", "1", ".", "5", "\n">>

\* headers with an empty segment
EmptySegmentHeaders ==
    {<<"[", "]", "\n">>, <<"[", ".", "a", "]", "\n">>,
     <<"[", "a", ".", ".", "b", "]", "\n">>, <<"[", "a", ".", "]", "\n">>}

\* a float as the last thing of the text
FloatAtEOF == <<"b", " ", "=", " ", "1", ".", "5">>

\* the ways of giving key k the value v on one line: spaces around the
\* separator or none, a line break at the end or none
KeyValueTexts(v) ==
    {KeyIs(v),
     <<"k", " ", "=">> \o v \o <<"\n">>,
     <<"k", "=">> \o v \o <<"\n">>,
     <<"k", " ", "=", " ">> \o v}

\* boolean literals: spelled right, misspelt at each position, cut short by
\* the end of the text, and followed by one more character
BoolWords == {<<"t", "r", "u", "e">>, <<"f", "a", "l", "s", "e">>}
KeySepSpace == <<"k", " ", "=", " ">>
BoolTexts ==
    {KeyIs(w) : w \in BoolWords}
    \cup UNION {{KeyIs(SubSeq(w, 1, d) \o <<c>>) :
                    d \in 1..(Len(w) - 1), c \in {"x", "\n", eof}} : w \in BoolWords}
    \cup UNION {{KeySepSpace \o SubSeq(w, 1, d) : d \in 1..Len(w)} : w \in BoolWords}
    \cup {KeyIs(w \o <<c>>) : w \in BoolWords, c \in {"x", "#", " ", eof}}

Specials ==
    UNION {KeyValueTexts(v) : v \in IntegerTexts}
    \cup {ArrayEmpty, ArrayOfIntegers, ArrayMixed, KeyIs(DatetimeText), FourEscapes,
          UnterminatedString, FruitDoc, TwoOnOneLine,
          FloatAtEOF, TwoAroundNUL, BoolAfterSep, FloatAfterSep}
    \cup {KeyIs(<<"\"", "\\", c, "\"">>) : c \in EscapeCodes}
    \cup EmptySegmentHeaders
    \cup BoolTexts

Inputs == ShortTexts \cup Docs \cup Specials

-----------------------------------------------------------------------------
(* parse.go: parse, topLevel and value, cut at their calls of p.next(). *)

NotApplied == [ok |-> FALSE, typ |-> tomlPolymorphic, msg |-> <<"not applied">>]

Init ==
    /\ input \in Inputs
    /\ lx = lex(input)
    /\ p = [mapping |-> <<>>, types |-> <<>>, ordered |-> <<>>, context |-> <<>>,
            currentKey |-> <<>>, approxLine |-> 0, implicits |-> <<>>]
    /\ pc = "parse"
    /\ key = <<>>
    /\ frames = <<>>
    /\ ret = [p |-> "nil", failed |-> FALSE, err |-> NoErr]
    /\ types = <<>>
    /\ tresult = NotApplied

Waiting == {"parse", "comment", "keyGroupFirst", "keyGroupLoop", "keyName", "value"}

\* nextItem taking its default branch while an item is waiting
RunningAhead(fn) ==
    /\ pc \in Waiting
    /\ lx.state # nil
    /\ lx.state[1] = fn

\* nextItem's default branch is taken: no item is waiting, and the state is fn
Running(fn) ==
    /\ pc \in Waiting
    /\ lx.items = <<>>
    /\ lx.state # nil
    /\ lx.state[1] = fn

parserVars == <<input, p, pc, key, frames, ret, types, tresult>>

\* lx.state = lx.state(lx), one action for each state function
LexTop == Running("lexTop") /\ lx' = lexTop(lx) /\ UNCHANGED parserVars
LexTopValueEnd == Running("lexTopValueEnd") /\ lx' = lexTopValueEnd(lx) /\ UNCHANGED parserVars
LexKeyGroupStart == Running("lexKeyGroupStart") /\ lx' = lexKeyGroupStart(lx) /\ UNCHANGED parserVars
LexKeyGroup == Running("lexKeyGroup") /\ lx' = lexKeyGroup(lx) /\ UNCHANGED parserVars
LexKeyStart == Running("lexKeyStart") /\ lx' = lexKeyStart(lx) /\ UNCHANGED parserVars
LexKey == Running("lexKey") /\ lx' = lexKey(lx) /\ UNCHANGED parserVars
LexKeyEnd == Running("lexKeyEnd") /\ lx' = lexKeyEnd(lx) /\ UNCHANGED parserVars
LexValue == Running("lexValue") /\ lx' = lexValue(lx) /\ UNCHANGED parserVars
LexString == Running("lexString") /\ lx' = lexString(lx) /\ UNCHANGED parserVars
LexStringEscape == Running("lexStringEscape") /\ lx' = lexStringEscape(lx) /\ UNCHANGED parserVars
LexNumberStart == Running("lexNumberStart") /\ lx' = lexNumberStart(lx) /\ UNCHANGED parserVars
LexNumber == Running("lexNumber") /\ lx' = lexNumber(lx) /\ UNCHANGED parserVars
LexFloatStart == Running("lexFloatStart") /\ lx' = lexFloatStart(lx) /\ UNCHANGED parserVars
LexFloat == Running("lexFloat") /\ lx' = lexFloat(lx) /\ UNCHANGED parserVars
LexTrue == Running("lexTrue") /\ lx' = lexTrue(lx) /\ UNCHANGED parserVars
LexFalse == Running("lexFalse") /\ lx' = lexFalse(lx) /\ UNCHANGED parserVars
LexCommentStart == Running("lexCommentStart") /\ lx' = lexCommentStart(lx) /\ UNCHANGED parserVars
LexComment == Running("lexComment") /\ lx' = lexComment(lx) /\ UNCHANGED parserVars
LexSkip == Running("lexSkip") /\ lx' = lexSkipRun(lx) /\ UNCHANGED parserVars

\* nextItem would call the nil stateFn
nilStateInvoked == pc \in Waiting /\ lx.items = <<>> /\ lx.state = nil

\* how a parser routine's outcome o ends the step: on to nextpc, or out of
\* parse through the deferred recover (a parseError), log.Fatalf or a panic
Conclude(o, nextpc) ==
    /\ p' = o.p
    /\ pc' = CASE o.st = "ok" -> nextpc
               [] o.st = "panic" -> "returned"
               [] o.st = "bug" -> "fatal"
               [] o.st = "crash" -> "crashed"
    /\ ret' = IF o.st = "panic"
              THEN [p |-> "parser", failed |-> TRUE, err |-> o.err]
              ELSE ret

\* nextItem's receive branch inside p.next(): the item, taken off the channel
Receive(at) ==
    /\ pc = at
    /\ lx.items # <<>>
    /\ lx' = [lx EXCEPT !.items = Tail(@)]

\* p.next() handing an error item on like any other item
nextKeepGoing(q, it) == Ok(q)

\* p.next() panics on an error item
nextPanic(q, it) == panic(q, <<"Near line %d: %s", it.line, it.val>>)

\* parse's loop: item = p.next(), then topLevel(item) as far as its first p.next()
ParseNext ==
    /\ Receive("parse")
    /\ LET it == Head(lx.items)
       IN CASE it.typ = itemError -> Conclude(nextPanic(p, it), "parse")
            [] it.typ = itemEOF ->
                 /\ pc' = "returned"
                 /\ ret' = [p |-> "parser", failed |-> FALSE, err |-> NoErr]
                 /\ p' = p
            [] it.typ = itemCommentStart ->
                 Conclude(Ok([p EXCEPT !.approxLine = it.line]), "comment")
            [] it.typ = itemKeyGroupStart -> Conclude(Ok(p), "keyGroupFirst")
            [] it.typ = itemKeyStart -> Conclude(Ok(p), "keyName")
            [] OTHER -> Conclude(bug(p, <<"Unexpected type at top level: %s", it.typ>>), "parse")
    /\ UNCHANGED <<input, key, frames, types, tresult>>

\* p.expect(itemText) after a comment start, at top level or inside an array
ExpectCommentText ==
    /\ Receive("comment")
    /\ LET it == Head(lx.items)
           back == IF frames = <<>> THEN "parse" ELSE "value"
       IN CASE it.typ = itemError -> Conclude(nextPanic(p, it), back)
            [] it.typ = itemText -> Conclude(Ok(p), back)
            [] OTHER -> Conclude(bug(p, <<"Expected '%s' but got '%s'.", itemText, it.typ>>), back)
    /\ UNCHANGED <<input, key, frames, types, tresult>>

\* kg = p.expect(itemText), and the first turn of the loop over the header
KeyGroupFirst ==
    /\ Receive("keyGroupFirst")
    /\ LET it == Head(lx.items)
       IN CASE it.typ = itemError ->
                 Conclude(nextPanic(p, it), "keyGroupLoop") /\ key' = key
            [] it.typ = itemText ->
                 /\ Conclude(Ok([p EXCEPT !.approxLine = it.line]), "keyGroupLoop")
                 /\ key' = <<it.val>>
            [] OTHER ->
                 /\ Conclude(bug(p, <<"Expected '%s' but got '%s'.", itemText, it.typ>>), "keyGroupLoop")
                 /\ key' = key
    /\ UNCHANGED <<input, frames, types, tresult>>

\* kg = p.next() in the loop over the header, and what follows the loop
KeyGroupLoop ==
    /\ Receive("keyGroupLoop")
    /\ LET it == Head(lx.items)
       IN CASE it.typ = itemError ->
                 Conclude(nextPanic(p, it), "keyGroupLoop") /\ key' = key
            [] it.typ = itemText ->
                 Conclude(Ok(p), "keyGroupLoop") /\ key' = Append(key, it.val)
            [] it.typ = itemKeyGroupEnd ->
                 Conclude(setKeyGroup(p, key), "parse") /\ key' = <<>>
            [] OTHER ->
                 /\ Conclude(bug(p, <<"Expected '%s' but got '%s'.", itemKeyGroupEnd, it.typ>>), "parse")
                 /\ key' = key
    /\ UNCHANGED <<input, frames, types, tresult>>

\* kname = p.expect(itemText)
KeyName ==
    /\ Receive("keyName")
    /\ LET it == Head(lx.items)
       IN CASE it.typ = itemError -> Conclude(nextPanic(p, it), "value")
            [] it.typ = itemText ->
                 Conclude(Ok([p EXCEPT !.currentKey = it.val, !.approxLine = it.line]), "value")
            [] OTHER -> Conclude(bug(p, <<"Expected '%s' but got '%s'.", itemText, it.typ>>), "value")
    /\ UNCHANGED <<input, key, frames, types, tresult>>

\* a value is complete: it joins the array being read, or, outside any
\* array, topLevel stores it under the current key
Deliver(fs, val, typ) ==
    IF fs = <<>>
    THEN Conclude(setKeyValue(p, val, typ), "parse") /\ frames' = <<>>
    ELSE /\ frames' = [fs EXCEPT ![Len(fs)] = [array |-> Append(@.array, val),
                                                types |-> Append(@.types, typ)]]
         /\ Conclude(Ok(p), "value")

\* p.value(p.next()), and each p.next() of the loop over an array's items
Value ==
    /\ Receive("value")
    /\ LET it == Head(lx.items)
       IN IF it.typ = itemError
          THEN Conclude(nextPanic(p, it), "value") /\ frames' = frames
          ELSE IF frames # <<>> /\ it.typ = itemArrayEnd
          THEN LET f == frames[Len(frames)]
                   t == typeOfArray(f.types)
               IN IF t.ok
                  THEN Deliver(SubSeq(frames, 1, Len(frames) - 1),
                               [kind |-> "Array", v |-> f.array], t.typ)
                  ELSE Conclude(panic(p, t.msg), "value") /\ frames' = frames
          ELSE IF frames # <<>> /\ it.typ = itemCommentStart
          THEN Conclude(Ok(p), "comment") /\ frames' = frames
          ELSE IF it.typ = itemArray
          THEN /\ Conclude(Ok(p), "value")
               /\ frames' = Append(frames, [array |-> <<>>, types |-> <<>>])
          ELSE LET v == valueOfPrimitive(p, it)
               IN IF v.st = "ok" THEN Deliver(frames, v.val, v.typ)
                  ELSE /\ Conclude([panic(p, v.msg) EXCEPT !.st = v.st], "value")
                       /\ frames' = frames
    /\ UNCHANGED <<input, key, types, tresult>>

Next ==
    \/ LexTop \/ LexTopValueEnd \/ LexKeyGroupStart \/ LexKeyGroup
    \/ LexKeyStart \/ LexKey \/ LexKeyEnd \/ LexValue
    \/ LexString \/ LexStringEscape
    \/ LexNumberStart \/ LexNumber \/ LexFloatStart \/ LexFloat
    \/ LexTrue \/ LexFalse \/ LexCommentStart \/ LexComment \/ LexSkip
    \/ ParseNext \/ ExpectCommentText \/ KeyGroupFirst \/ KeyGroupLoop
    \/ KeyName \/ Value

Spec == Init /\ [][Next]_vars


-----------------------------------------------------------------------------
(* The type registry on its own: typeOfArray applied to a list of the      *)
(* types parser.value can return for the items of an array.                *)

PrimitiveTypes == {tomlInteger, tomlFloat, tomlDatetime, tomlString, tomlBool}

RECURSIVE ValueTypes(_)
ValueTypes(d) ==
    IF d = 0 THEN PrimitiveTypes
    ELSE PrimitiveTypes \cup {tomlArrayType(tomlPolymorphic)}
         \cup {tomlArrayType(t) : t \in ValueTypes(d - 1)}

TypeLists == UNION {[1..n -> ValueTypes(MaxDepth)] : n \in 0..MaxElems}

TypeInit ==
    /\ types \in TypeLists
    /\ tresult = NotApplied
    /\ pc = "typeOfArray"
    /\ input = <<>>
    /\ lx = lex(input)
    /\ p = [mapping |-> <<>>, types |-> <<>>, ordered |-> <<>>, context |-> <<>>,
            currentKey |-> <<>>, approxLine |-> 0, implicits |-> <<>>]
    /\ key = <<>>
    /\ frames = <<>>
    /\ ret = [p |-> "nil", failed |-> FALSE, err |-> NoErr]

ApplyTypeOfArray ==
    /\ pc = "typeOfArray"
    /\ tresult' = typeOfArray(types)
    /\ pc' = "typed"
    /\ UNCHANGED <<input, lx, p, key, frames, ret, types>>

TypeNext == ApplyTypeOfArray

TypeSpec == TypeInit /\ [][TypeNext]_vars

-----------------------------------------------------------------------------
(* The claims. *)

Finished == pc \notin Waiting
Succeeded == pc = "returned" /\ ~ret.failed
\* parse returned the parseError of the given format
Failed(fmt) == pc = "returned" /\ ret.failed /\ ret.err.msg[1] = fmt
\* parse returned the scanner's error of the given format
LexFailed(fmt) ==
    /\ Failed("Near line %d: %s")
    /\ ret.err.msg[3][1] = fmt
AlreadyDefined == "Key '%s' has already been defined."
PathK == << <<"k">> >>
Holds(path, val, typ) ==
    /\ path \in DOMAIN p.mapping
    /\ p.mapping[path].kind = val.kind
    /\ p.mapping[path] = val
    /\ KeyString(path) \in DOMAIN p.types
    /\ p.types[KeyString(path)] = typ

\* C1: for every text the scanner, asked for items again and again, ends
\* the token stream with an EOF or an error item.  The scanner is
\* deterministic, so it must never stand, with no item to hand out, in a
\* state that its own state function leaves as it is: from there nextItem
\* loops for ever.
C1_ScannerEndsTokenStream ==
    ~(pc \in Waiting /\ lx.items = <<>> /\ lx.state # nil /\ stateFn(lx) = lx)

\* C2: when parse returns an error it hands the caller no parser holding
\* the tables and keys built before the error.
C2_NoPartialDocument ==
    (pc = "returned" /\ ret.failed) =>
        (ret.p = "nil" \/ (DOMAIN p.mapping = {} /\ p.ordered = <<>>))

\* a key-value was accepted at the path: its type is on record and is no table's
KeyValueAccepted(q, path) ==
    KeyString(path) \in DOMAIN q.types /\ q.types[KeyString(path)] # tomlHash

\* C3: a key-value k = v2 whose value decodes, processed in a context where
\* a key-value for k was accepted before, ends the parse with the 'has
\* already been defined' parseError, whatever the two values are; and no
\* step ever changes a value the document already holds.
C3_DuplicateKeyRejected ==
    [][/\ ( /\ pc = "value" /\ frames = <<>> /\ lx.items # <<>>
            /\ valueOfPrimitive(p, Head(lx.items)).st = "ok"
            /\ KeyValueAccepted(p, KeyAdd(p.context, p.currentKey)) )
          => ( /\ pc' = "returned" /\ ret'.failed
               /\ ret'.err.msg[1] = AlreadyDefined
               /\ ret'.err.msg[2] = KeyAdd(p.context, p.currentKey) )
       /\ \A path \in DOMAIN p.mapping :
             path \in DOMAIN p'.mapping /\ p'.mapping[path] = p.mapping[path]
      ]_vars

\* b = 1 then b = true under [a]: the second is rejected, the Integer stays
C3_Witness ==
    /\ input = DocOf(<<1, 4, 6>>)
    /\ Failed(AlreadyDefined)
    /\ ret.err.msg[2] = << <<"a">>, <<"b">> >>
    /\ Holds(<< <<"a">>, <<"b">> >>, [kind |-> "Integer", v |-> <<"1">>], tomlInteger)

\* the step that ends a header: topLevel has the whole key and receives
\* the itemKeyGroupEnd
HeaderEnds == pc = "keyGroupLoop" /\ lx.items # <<>> /\ Head(lx.items).typ = itemKeyGroupEnd

C5_OrderedKeysUnique ==
    \A i, j \in 1..Len(p.ordered) : i # j => p.ordered[i] # p.ordered[j]

\* three paths on the list, one of them a claimed implicit table
C5_Witness ==
    /\ Len(p.ordered) >= 3
    /\ \E i \in 1..Len(p.ordered) :
          /\ KeyString(p.ordered[i]) \in DOMAIN p.implicits
          /\ ~p.implicits[KeyString(p.ordered[i])]

\* C6: when typeOfArray accepts a list of item types, every two types of
\* the list are equal under typeEqual; the empty list is typed
\* Array-of-Polymorphic.
C6_AcceptedArrayHomogeneous ==
    (pc = "typed" /\ tresult.ok) =>
        /\ \A i, j \in 1..Len(types) : typeEqual(types[i], types[j])
        /\ (types = <<>> => tresult.typ = tomlArrayType(tomlPolymorphic))

\* C7: k = [] decodes to an empty array typed Array-of-Polymorphic,
\* k = [1,2,3] to an Integer array, and k = [1,"a"] fails with the
\* homogeneity error naming Integer and String.
C7_ArrayLiteralsDecoded ==
    /\ (input = ArrayEmpty /\ Finished) =>
          Succeeded /\ Holds(PathK, [kind |-> "Array", v |-> <<>>],
                             tomlArrayType(tomlPolymorphic))
    /\ (input = ArrayOfIntegers /\ Finished) =>
          /\ Succeeded
          /\ PathK \in DOMAIN p.mapping /\ p.mapping[PathK].kind = "Array"
          /\ Len(p.mapping[PathK].v) = 3
          /\ p.types[KeyString(PathK)] = tomlArrayType(tomlInteger)
    /\ (input = ArrayMixed /\ Finished) =>
          /\ Failed("Array contains values of type '%s' and '%s', but arrays must be homogeneous.")
          /\ ret.err.msg[2] = <<"Integer">> /\ ret.err.msg[3] = <<"String">>

\* C8: a key whose value is an integer literal decodes iff the literal
\* lies in [-2^63, 2^63-1], and a literal outside ends the parse with the
\* 'out of the range of 64-bit signed integers' parseError.
C8_IntegerRange ==
    \A v \in IntegerTexts :
        (input \in KeyValueTexts(v) /\ Finished) =>
            IF ParseInt(v).err = "nil"
            THEN Succeeded /\ Holds(PathK, [kind |-> "Integer", v |-> ParseInt(v).num],
                                    tomlInteger)
            ELSE /\ Failed("Integer '%s' is out of the range of 64-bit signed integers.")
                 /\ ret.err.msg[2] = v

\* the character an escape code of the scanner stands for
EscapedChar(c) ==
    CASE c = "0" -> eof [] c = "t" -> "\t" [] c = "n" -> "\n"
      [] c = "r" -> "\r" [] c = "\"" -> "\"" [] c = "\\" -> "\\"

\* C9: in a string, a backslash and an escape code of the scanner's set
\* (0 t n r " \) are accepted and decoded to the one character they stand
\* for; a backslash and any other character are a lex error.
C9_StringEscapes ==
    /\ \A c \in EscapeCodes :
          (input = KeyIs(<<"\"", "\\", c, "\"">>) /\ Finished) =>
              IF c \in lexEscapes
              THEN Succeeded /\ Holds(PathK, [kind |-> "String", v |-> <<EscapedChar(c)>>],
                                      tomlString)
              ELSE LexFailed("Invalid escape character '%s'. Only the following escape characters are allowed: \\0, \\t, \\n, \\r, \\\", \\\\.")
    /\ (input = FourEscapes /\ Finished) =>
          Succeeded /\ Holds(PathK, [kind |-> "String", v |-> <<"\t", "\n", "\\", "\"">>],
                             tomlString)

\* C10: a key whose value is a datetime literal YYYY-MM-DDTHH:MM:SSZ is
\* decoded to a Datetime value.
C10_DatetimeDecoded ==
    (input = KeyIs(DatetimeText) /\ Finished) =>
        Succeeded /\ Holds(PathK, [kind |-> "Datetime", v |-> DatetimeText], tomlDatetime)

\* what each line of Lines declares: a header's path, or a key
LineDecl ==
    << [header |-> TRUE, path |-> << <<"a">> >>],
       [header |-> TRUE, path |-> << <<"a">>, <<"b">> >>],
       [header |-> TRUE, path |-> << <<"a">>, <<"b">>, <<"c">> >>],
       [header |-> FALSE, path |-> << <<"b">> >>],
       [header |-> FALSE, path |-> << <<"b">> >>],
       [header |-> FALSE, path |-> << <<"b">> >>],
       [header |-> FALSE, path |-> << <<"a">> >>],
       [header |-> FALSE, path |-> << <<"b">> >> ] >>

\* the paths the lines ix declare, read off the text: a header declares
\* its path and makes it the context, a key-value declares context + key
RECURSIVE Declared(_, _)
Declared(ix, ctx) ==
    IF Len(ix) = 0 THEN <<>>
    ELSE LET d == LineDecl[Head(ix)]
         IN IF d.header
            THEN <<d.path>> \o Declared(Tail(ix), d.path)
            ELSE <<ctx \o d.path>> \o Declared(Tail(ix), ctx)

\* C11: after a successful parse the ordered key-path list is the list of
\* the header paths and the fully qualified key paths of the document, each
\* once, in the order the source declares them; the fruit document gives
\* fruit, fruit.name, fruit.physical, fruit.physical.color,
\* fruit.physical.shape.
C11_OrderedKeysInDeclarationOrder ==
    Succeeded =>
        /\ \A ix \in DocIndexes : input = DocOf(ix) => p.ordered = Declared(ix, <<>>)
        /\ input = FruitDoc =>
              p.ordered = << <<Fruit>>, <<Fruit, <<"n", "a", "m", "e">> >>,
                             <<Fruit, Physical>>,
                             <<Fruit, Physical, <<"c", "o", "l", "o", "r">> >>,
                             <<Fruit, Physical, <<"s", "h", "a", "p", "e">> >> >>

\* [a.b], [a], b = 1 parsed: a deeper header first, then the claimed
\* implicit table, then a key under it
C11_Witness ==
    /\ Succeeded
    /\ input = DocOf(<<3, 1, 8>>)
    /\ p.ordered = << << <<"a">>, <<"b">>, <<"c">> >>, << <<"a">> >>, << <<"a">>, <<"b">> >> >>

\* the items that end the token stream
Terminal(it) == it.typ = itemError \/ it.typ = itemEOF

\* C12: once the scanner has emitted an error or an EOF item it emits no
\* further item.  An error or EOF item is the last of the queue and leaves
\* the scanner in its nil state, and from the nil state no step adds an
\* item or leaves the nil state: items are only taken off the queue.
C12_NoItemAfterErrorOrEOF ==
    [][/\ \A i \in 1..Len(lx'.items) :
             Terminal(lx'.items[i]) => (i = Len(lx'.items) /\ lx'.state = nil)
       /\ lx.state = nil =>
             /\ lx'.state = nil
             /\ \/ lx'.items = lx.items
                \/ lx.items # <<>> /\ lx'.items = Tail(lx.items)
      ]_vars

\* the scanner emitted items the parser stored a key from, then an error
\* item, and the parser has taken the error item and returned
C12_Witness ==
    /\ lx.state = nil
    /\ lx.items = <<>>
    /\ p.ordered # <<>>
    /\ Failed("Near line %d: %s")
    /\ lx.pos < Len(input)

\* C13: the parser never asks for another item after it has received an
\* EOF or an error item: the step that receives one ends parse, parse once
\* ended asks for nothing more, and so nextItem never calls the nil state.
C13_ParserStopsAfterErrorOrEOF ==
    /\ [](~nilStateInvoked)
    /\ [][/\ (pc \in Waiting /\ lx.items # <<>> /\ Terminal(Head(lx.items)))
             => (pc' \notin Waiting /\ lx'.items = <<>> /\ lx'.state = nil)
          /\ pc \notin Waiting => pc' = pc
         ]_vars

\* the error item arrived while topLevel was waiting for a key's value
C13_Witness ==
    /\ Failed("Near line %d: %s")
    /\ p.currentKey # <<>>
    /\ lx.state = nil /\ lx.items = <<>>

\* the scanner is about to run the state function fn
About(fn) == pc \in Waiting /\ lx.items = <<>> /\ lx.state = St(fn)

\* the next rune ends a numeric literal: whitespace, a line break or the
\* end of the input
EndsNumber ==
    isWhitespace(rune(lx)) \/ isNL(rune(lx)) \/ lx.pos >= Len(input)

\* the one item of type typ whose text runs from the start mark to the cursor
Lexeme(typ) ==
    <<[typ |-> typ, val |-> SubSeq(input, lx.start + 1, lx.pos), line |-> lx.line]>>

\* C14: with at least one digit read, an integer or float literal ends at
\* the first whitespace, line break or end of input: the scanner emits the
\* integer/float item and puts the ending character back, also when the
\* number is the last thing of the text.
C14_NumberEndsAtTerminator ==
    /\ (About("lexNumber") /\ EndsNumber) =>
          /\ stateFn(lx).items = Lexeme(itemInteger)
          /\ stateFn(lx).pos = lx.pos
    /\ (About("lexFloat") /\ EndsNumber) =>
          /\ stateFn(lx).items = Lexeme(itemFloat)
          /\ stateFn(lx).pos = lx.pos

\* the same, for the numbers a space or a line break follows
C14_NumberEndsAtWhitespace ==
    /\ (About("lexNumber") /\ lx.pos < Len(input) /\ EndsNumber) =>
          /\ stateFn(lx).items = Lexeme(itemInteger)
          /\ stateFn(lx).pos = lx.pos
    /\ (About("lexFloat") /\ lx.pos < Len(input) /\ EndsNumber) =>
          /\ stateFn(lx).items = Lexeme(itemFloat)
          /\ stateFn(lx).pos = lx.pos

\* the text is one line: it has no line break but, at most, a last one
OneLine == \A i \in 1..(Len(input) - 1) : ~isNL(input[i])

\* the key-values the parser has accepted
KeyValuesAccepted == {k \in DOMAIN p.types : p.types[k] # tomlHash}

\* the text has no rune 0 in it
NoNUL == \A i \in 1..Len(input) : input[i] # eof

\* what the scanner does with the rune after a top-level value
ValueEnd ==
    LET r == rune(lx)
        l2 == stateFn(lx)
    IN IF lx.pos >= Len(input) \/ isNL(r)
       THEN l2.items = <<>> /\ l2.state = St("lexTop") /\ l2.stack = <<>>
       ELSE IF isWhitespace(r)
       THEN l2.items = <<>> /\ l2.state = St("lexTopValueEnd")
       ELSE IF r = commentStart
       THEN l2.items = <<>> /\ l2.state = St("lexCommentStart")
       ELSE Len(l2.items) = 1 /\ l2.items[1].typ = itemError /\ l2.state = nil

\* C15: after a top-level value the scanner takes only spaces and tabs,
\* then a comment, a line break or the end of the input; any other
\* character on the line gives an error item, so no text of one line
\* yields two key-values.
C15_ValueTerminated ==
    /\ About("lexTopValueEnd") => ValueEnd
    /\ OneLine => Cardinality(KeyValuesAccepted) <= 1

\* the same, for the texts that hold no rune 0
C15_ValueTerminatedNoNUL ==
    NoNUL => C15_ValueTerminated

\* the non-last prefixes of the header being ended
Prefixes == {SubSeq(key, 1, i) : i \in 1..(Len(key) - 1)}

\* path a is a proper prefix of path b
Below(a, b) == Len(a) < Len(b) /\ SubSeq(b, 1, Len(a)) = a

\* C16: when a header ends, if a non-last prefix of it exists as a
\* non-table value the parse ends with a parseError; otherwise every
\* non-last prefix that was absent is now an empty table flagged implicit
\* (it holds nothing but the tables of this header), and every prefix that
\* was a table is still that table, its implicit flag as it was.
C16_HeaderPrefixes ==
    [][HeaderEnds =>
         IF \E pre \in Prefixes :
                pre \in DOMAIN p.mapping /\ p.mapping[pre].kind # "Hash"
         THEN /\ pc' = "returned" /\ ret'.failed /\ ret'.p = "parser"
              /\ ret'.err.msg[1] = "Key '%s' was already created as a hash."
              /\ p'.mapping = p.mapping
         ELSE \A pre \in Prefixes :
                 /\ pre \in DOMAIN p'.mapping /\ p'.mapping[pre] = Hash
                 /\ IF pre \in DOMAIN p.mapping
                    THEN isImplicit(p', pre) = isImplicit(p, pre)
                    ELSE /\ isImplicit(p', pre)
                         /\ \A path \in DOMAIN p'.mapping :
                               Below(pre, path) => (path = key \/ path \in Prefixes)
      ]_vars

\* [a], b = 1, [a.b.c] ended with the error: the prefix a.b is an Integer,
\* the prefix a before it is still the table it was
C16_Witness ==
    /\ input = DocOf(<<1, 4, 3>>)
    /\ Failed("Key '%s' was already created as a hash.")
    /\ ret.err.msg[2] = << <<"a">>, <<"b">> >>
    /\ p.mapping[<< <<"a">> >>] = Hash /\ ~isImplicit(p, << <<"a">> >>)
    /\ p.mapping[<< <<"a">>, <<"b">> >>].kind = "Integer"

\* the parser once establishContext has claimed the implicit table at k:
\* the context is k and the flag of k is cleared, nothing else differs
Claimed(q, k) ==
    [q EXCEPT !.context = k, !.implicits = (KeyString(k) :> FALSE) @@ @]

RECURSIVE StructuralType(_)
StructuralType(val) ==
    CASE val.kind = "Hash" -> tomlHash
      [] val.kind = "Integer" -> tomlInteger
      [] val.kind = "Float" -> tomlFloat
      [] val.kind = "Datetime" -> tomlDatetime
      [] val.kind = "String" -> tomlString
      [] val.kind = "Bool" -> tomlBool
      [] val.kind = "Array" ->
           typeOfArray([i \in 1..Len(val.v) |-> StructuralType(val.v[i])]).typ

\* the step in which topLevel accepts the key-value it was reading
KeyValueStored ==
    /\ pc = "value" /\ frames = <<>> /\ lx.items # <<>>
    /\ valueOfPrimitive(p, Head(lx.items)).st = "ok"
    /\ pc' = "parse"

\* the document after the step holds the decoded value at context + key,
\* and the type on record there is the type of the value the document holds
StoredAsDecoded ==
    LET v == valueOfPrimitive(p, Head(lx.items))
        path == KeyAdd(p.context, p.currentKey)
    IN /\ path \in DOMAIN p'.mapping
       /\ p'.mapping[path] = v.val
       /\ KeyString(path) \in DOMAIN p'.types
       /\ p'.types[KeyString(path)] = StructuralType(p'.mapping[path])

\* C18: after every key-value k = v accepted under the context c, also
\* when c.k was an implicitly created path, the document holds the decoded
\* v at c.k and the type on record for c.k is the structural type of the
\* value the document holds at c.k.
C18_KeyValueStored ==
    [][KeyValueStored => StoredAsDecoded]_vars

\* the same, for the keys whose path is not flagged implicit
C18_KeyValueStoredUnlessImplicit ==
    [][(KeyValueStored /\ ~isImplicit(p, KeyAdd(p.context, p.currentKey)))
          => StoredAsDecoded]_vars

NoStatesToPop == "BUG in lexer: no states to pop."

\* C19: every pop of the scanner's stack has a push before it: no error
\* item 'BUG in lexer: no states to pop.' is ever emitted or handed to the
\* parser; the stack is empty whenever the scanner is in lexTop, and it
\* never holds more than one state.
C19_StackDiscipline ==
    /\ \A i \in 1..Len(lx.items) :
          lx.items[i].typ = itemError => lx.items[i].val[1] # NoStatesToPop
    /\ ~LexFailed(NoStatesToPop)
    /\ lx.state = St("lexTop") => lx.stack = <<>>
    /\ Len(lx.stack) <= 1

\* a comment after a value has been read to its end: lexTop was pushed
\* over the empty stack and popped again, after the string's scan had
\* popped lexTopValueEnd
C19_Witness ==
    /\ lx.state = St("lexTop")
    /\ lx.stack = <<>>
    /\ Len(lx.items) = 1 /\ lx.items[1].typ = itemText
    /\ pc = "comment"
    /\ p.ordered # <<>>

\* an optional '-' and one or more digits
IsIntegerLexeme(t) ==
    LET ds == IF Len(t) > 0 /\ t[1] = "-" THEN Tail(t) ELSE t
    IN AllDigits(ds)

\* an optional '-', digits, '.', one or more digits
IsFloatLexeme(t) ==
    LET body == IF Len(t) > 0 /\ t[1] = "-" THEN Tail(t) ELSE t
    IN \E i \in 2..(Len(body) - 1) :
          /\ body[i] = "."
          /\ AllDigits(SubSeq(body, 1, i - 1))
          /\ AllDigits(SubSeq(body, i + 1, Len(body)))

IsLexeme(it) ==
    CASE it.typ = itemInteger -> IsIntegerLexeme(it.val)
      [] it.typ = itemFloat -> IsFloatLexeme(it.val)
      [] it.typ = itemBool -> it.val \in {<<"t", "r", "u", "e">>, <<"f", "a", "l", "s", "e">>}
      [] OTHER -> TRUE

\* C20: the text of every integer, float and boolean item is exactly its
\* lexeme, whether or not whitespace follows the '=', so parser.value never
\* takes one of its 'Expected integer/float/boolean value' bug branches.
C20_ValueTokenIsLexeme ==
    /\ \A i \in 1..Len(lx.items) : IsLexeme(lx.items[i])
    /\ (pc = "value" /\ lx.items # <<>>
          /\ Head(lx.items).typ \in {itemInteger, itemFloat, itemBool})
         => valueOfPrimitive(p, Head(lx.items)).st # "bug"

\* every key separator of the text has whitespace after it
SpaceAfterSep ==
    \A i \in 1..Len(input) :
        input[i] = keySep => (i < Len(input) /\ isWhitespace(input[i + 1]))

\* the same, for the texts with whitespace after each '='
C20_ValueTokenIsLexemeAfterSpace ==
    SpaceAfterSep => C20_ValueTokenIsLexeme

\* the kinds of value item
ValueItems == {itemString, itemBool, itemInteger, itemFloat}

\* the kinds of item the parser, where it stands, takes without reporting
\* a bug: the item that continues the construct it is reading, or an error
Expected ==
    CASE pc = "parse" -> {itemEOF, itemCommentStart, itemKeyGroupStart, itemKeyStart, itemError}
      [] pc = "comment" -> {itemText, itemError}
      [] pc = "keyGroupFirst" -> {itemText, itemError}
      [] pc = "keyGroupLoop" -> {itemText, itemKeyGroupEnd, itemError}
      [] pc = "keyName" -> {itemText, itemError}
      [] pc = "value" -> ValueItems \cup {itemError}
      [] OTHER -> {}

\* the kind of item that may follow the item it in the token stream
Follows(it) ==
    CASE it.typ = itemCommentStart -> {itemText, itemError}
      [] it.typ = itemKeyGroupStart -> {itemText, itemError}
      [] it.typ = itemKeyStart -> {itemText, itemError}
      [] OTHER -> {itemEOF, itemCommentStart, itemKeyGroupStart, itemKeyStart,
                   itemText, itemKeyGroupEnd, itemError} \cup ValueItems

\* C21: in the token stream a comment start is followed by one text item;
\* a header start by one or more text items and a header end; a key start
\* by one text item and one value item; only an error item may cut these
\* short.  So every item the parser receives is of a kind it expects where
\* it stands, and its expect/assertEqual and 'Unexpected type at top
\* level' bug branches are never taken.
C21_TokenOrder ==
    /\ (pc \in Waiting /\ lx.items # <<>>) => Head(lx.items).typ \in Expected
    /\ \A i \in 1..(Len(lx.items) - 1) : lx.items[i + 1].typ \in Follows(lx.items[i])
    /\ pc = "fatal" =>
          /\ p.currentKey # <<>>
          /\ frames = <<>>

\* a header of two segments has been read to its end
C21_Witness ==
    /\ HeaderEnds
    /\ Len(key) = 2
    /\ lx.state = St("lexTop")

Homogeneous == "Array contains values of type '%s' and '%s', but arrays must be homogeneous."

\* C22: for a non-empty list typeOfArray returns Array-of(the first type)
\* iff every later type is typeEqual to the first; otherwise it raises the
\* homogeneity error that names the first type and the leftmost later
\* type that differs from it.
C22_Unification ==
    (pc = "typed" /\ Len(types) > 0) =>
        /\ tresult.ok <=> \A i \in 2..Len(types) : typeEqual(types[1], types[i])
        /\ tresult.ok => tresult.typ = tomlArrayType(types[1])
        /\ ~tresult.ok =>
              \E i \in 2..Len(types) :
                 /\ ~typeEqual(types[1], types[i])
                 /\ \A j \in 2..(i - 1) : typeEqual(types[1], types[j])
                 /\ tresult.msg = <<Homogeneous, TypeString(types[1]), TypeString(types[i])>>

\* Integer, String, Bool: the error names Integer and String, not Bool
C22_Witness ==
    /\ pc = "typed"
    /\ types = <<tomlInteger, tomlString, tomlBool>>
    /\ tresult.msg = <<Homogeneous, <<"Integer">>, <<"String">> >>

\* C23: typeEqual is an equivalence relation on the structural types:
\* reflexive, symmetric and transitive.
C23_TypeEqualEquivalence ==
    pc = "typed" =>
        \A i, j, k \in 1..Len(types) :
            /\ typeEqual(types[i], types[i])
            /\ typeEqual(types[i], types[j]) <=> typeEqual(types[j], types[i])
            /\ (typeEqual(types[i], types[j]) /\ typeEqual(types[j], types[k]))
                  => typeEqual(types[i], types[k])

\* the same without transitivity
C23_TypeEqualReflexiveSymmetric ==
    pc = "typed" =>
        \A i, j \in 1..Len(types) :
            /\ typeEqual(types[i], types[i])
            /\ typeEqual(types[i], types[j]) <=> typeEqual(types[j], types[i])

\* the number of '\n' in input[0:pos]
NewLinesBefore(pos) == Cardinality({i \in 1..pos : input[i] = "\n"})

\* C24: in every reachable scanner state start <= pos <= len(input) and
\* the line counter is 1 plus the number of '\n' in input[0:pos]; backup
\* is never called twice with no next in between; and peek leaves pos and
\* line as they are.
C24_CursorAndLine ==
    /\ lx.start <= lx.pos /\ lx.pos <= Len(input)
    /\ 0 <= lx.start
    /\ lx.line = 1 + NewLinesBefore(lx.pos)
    /\ lx.undo # "twice"
    /\ peek(lx).pos = lx.pos /\ peek(lx).line = lx.line

\* the scanner has read a line break as the end of a number and put it
\* back: the line counter went up and down again
C24_Witness ==
    /\ lx.state = St("lexTopValueEnd")
    /\ lx.items # <<>> /\ Head(lx.items).typ = itemInteger
    /\ lx.pos < Len(input) /\ input[lx.pos + 1] = "\n"
    /\ lx.undo = "none"
    /\ lx.line = 2

\* the pieces of s between the separators sep
RECURSIVE Split(_, _)
Split(s, sep) ==
    IF \A i \in 1..Len(s) : s[i] # sep THEN <<s>>
    ELSE LET i == CHOOSE j \in 1..Len(s) :
                      s[j] = sep /\ \A k \in 1..(j - 1) : s[k] # sep
         IN <<SubSeq(s, 1, i - 1)>> \o Split(SubSeq(s, i + 1, Len(s)), sep)

\* the text starts with a header that is closed
StartsWithHeader ==
    /\ Len(input) > 0 /\ input[1] = keyGroupStart
    /\ \E j \in 2..Len(input) : input[j] = keyGroupEnd

\* the segments of the header the text starts with, read off the text
FirstHeader ==
    LET close == CHOOSE j \in 2..Len(input) :
                     input[j] = keyGroupEnd /\ \A k \in 2..(j - 1) : input[k] # keyGroupEnd
    IN Split(SubSeq(input, 2, close - 1), keyGroupSep)

EmptyKeyGroup ==
    {"Unexpected end of key group. (Key groups cannot be empty.)",
     "Unexpected key group separator. (Key groups cannot be empty.)"}

\* C25: for a header [s1.s2...sn] whose segments are all non-empty the
\* scanner emits the header start, n text items whose texts are s1..sn
\* (no dot, no bracket), and the header end: the parser collects exactly
\* s1..sn and declares that path.  A header with an empty segment gives an
\* error item instead.
C25_HeaderScanned ==
    StartsWithHeader =>
        IF \A i \in 1..Len(FirstHeader) : FirstHeader[i] # <<>>
        THEN /\ (HeaderEnds /\ DOMAIN p.types = {}) => key = FirstHeader
             /\ (lx.items # <<>> /\ DOMAIN p.types = {} /\ pc \in {"keyGroupFirst", "keyGroupLoop"})
                   => \/ /\ Head(lx.items).typ = itemText
                         /\ Len(key) < Len(FirstHeader)
                         /\ Head(lx.items).val = FirstHeader[Len(key) + 1]
                      \/ /\ Head(lx.items).typ = itemKeyGroupEnd
                         /\ Head(lx.items).val = <<keyGroupEnd>>
             /\ Finished => (Len(p.ordered) >= 1 /\ p.ordered[1] = FirstHeader)
        ELSE /\ p.ordered = <<>>
             /\ ~(HeaderEnds /\ DOMAIN p.types = {})
             /\ Finished => \E m \in EmptyKeyGroup : LexFailed(m)

\* the header [a.b.c] at the start of the text has been read to its end
C25_Witness ==
    /\ HeaderEnds
    /\ DOMAIN p.types = {}
    /\ key = << <<"a">>, <<"b">>, <<"c">> >>

\* [a..b] was rejected at its empty segment
C25_EmptySegmentRejected ==
    /\ input = <<"[", "a", ".", ".", "b", "]", "\n">>
    /\ LexFailed("Unexpected key group separator. (Key groups cannot be empty.)")

\* the item is the text of a key name, handed to topLevel's expect
KeyNameItem == pc = "keyName" /\ lx.items # <<>> /\ Head(lx.items).typ = itemText

Five == <<"5">>

\* C26: the text item of a key name never holds the key separator '=',
\* and k=v, written with no whitespace around the separator, is scanned as
\* k = v is: key k, then the value v.
C26_KeyScanned ==
    /\ KeyNameItem =>
          \A i \in 1..Len(Head(lx.items).val) : Head(lx.items).val[i] # keySep
    /\ (input = <<"k", "=">> \o Five \o <<"\n">> /\ KeyNameItem) =>
          Head(lx.items).val = <<"k">>
    /\ (input = <<"k", "=">> \o Five \o <<"\n">> /\ Finished) =>
          Succeeded /\ Holds(PathK, [kind |-> "Integer", v |-> Five], tomlInteger)

\* every key separator of the text has whitespace before it
SpaceBeforeSep ==
    \A i \in 1..Len(input) :
        input[i] = keySep => (i > 1 /\ isWhitespace(input[i - 1]))

\* the text of a key name holds no '=' when whitespace precedes each '='
C26_KeyScannedAfterSpace ==
    (SpaceBeforeSep /\ KeyNameItem) =>
        \A i \in 1..Len(Head(lx.items).val) : Head(lx.items).val[i] # keySep

\* the characters after the cursor, as many as the rest of the word has
Rest(word) ==
    SubSeq(input, lx.pos + 1,
           IF lx.pos + Len(word) - 1 <= Len(input)
           THEN lx.pos + Len(word) - 1 ELSE Len(input))

\* the number of leading characters of the text after the cursor that
\* agree with the rest of the word
RECURSIVE Agree(_, _)
Agree(word, i) ==
    IF i >= Len(word) THEN 0
    ELSE IF lx.pos + i <= Len(input) /\ input[lx.pos + i] = word[i + 1]
    THEN 1 + Agree(word, i + 1)
    ELSE 0

\* the message for a deviation after n characters of the rest have agreed
Mismatch(word, n) ==
    IF word[1] = "t"
    THEN CASE n = 0 -> "Expected 'tr', but found 't%s' instead."
           [] n = 1 -> "Expected 'tru', but found 'tr%s' instead."
           [] OTHER -> "Expected 'true', but found 'tru%s' instead."
    ELSE CASE n = 0 -> "Expected 'fa', but found 'f%s' instead."
           [] n = 1 -> "Expected 'fal', but found 'fa%s' instead."
           [] n = 2 -> "Expected 'fals', but found 'fal%s' instead."
           [] OTHER -> "Expected 'false', but found 'fals%s' instead."

\* the character at 0-based offset i, the end-of-input rune past the text
CharAt(i) == IF i >= Len(input) THEN eof ELSE input[i + 1]

\* what the scanner does after the first character of a boolean literal
BoolMatched(word) ==
    LET l2 == stateFn(lx)
        n == Agree(word, 1)
    IN /\ Len(l2.items) = 1
       /\ l2.items[1].typ = itemBool <=> Rest(word) = Tail(word)
       /\ l2.items[1].typ = itemBool =>
             /\ l2.items[1].val = SubSeq(input, lx.start + 1, lx.pos + Len(word) - 1)
             /\ l2.state # nil
       /\ l2.items[1].typ # itemBool =>
             /\ l2.items[1].typ = itemError
             /\ l2.items[1].val =
                   <<Mismatch(word, n), escapeSpecial(CharAt(lx.pos + n))>>
             /\ l2.state = nil

\* the cursor stands directly after a boolean literal just emitted
AfterBool ==
    /\ About("lexTopValueEnd")
    /\ lx.pos = lx.start
    /\ \E w \in BoolWords :
          /\ lx.pos >= Len(w)
          /\ SubSeq(input, lx.pos - Len(w) + 1, lx.pos) = w

\* the character at the cursor may not follow a value
NonTerminator ==
    /\ lx.pos < Len(input)
    /\ ~isWhitespace(rune(lx)) /\ ~isNL(rune(lx)) /\ rune(lx) # commentStart

ValueEndError ==
    "Expected a top-level value to end with a new line, comment or EOF, but got '%s' instead."

\* C27: after a first character t (f) the scanner emits a boolean item iff
\* the following characters spell rue (alse); otherwise it emits exactly one
\* error item, naming the prefix up to the first deviating character, and
\* no boolean item.  A literal spelled right and directly followed by a
\* character that may not end a value is rejected by lexTopValueEnd.
C27_BooleanMatching ==
    /\ About("lexTrue") => BoolMatched(<<"t", "r", "u", "e">>)
    /\ About("lexFalse") => BoolMatched(<<"f", "a", "l", "s", "e">>)
    /\ (AfterBool /\ NonTerminator) =>
          /\ Len(stateFn(lx).items) = 1
          /\ stateFn(lx).items[1].typ = itemError
          /\ stateFn(lx).items[1].val[1] = ValueEndError
          /\ stateFn(lx).state = nil

\* the same, for the texts that hold no rune 0
C27_BooleanMatchingNoNUL ==
    NoNUL => C27_BooleanMatching

\* a misspelt literal is about to be scanned
C27_Misspelt ==
    /\ About("lexTrue")
    /\ Rest(<<"t", "r", "u", "e">>) = <<"r", "u", "x">>

\* truex: the literal has been emitted and x follows it
C27_Followed ==
    AfterBool /\ NonTerminator /\ rune(lx) = "x"

\* the capacity of the channel of items
ItemsCapacity == 10

\* the front item is delivered: taken off the queue, the rest kept in order
Delivered == lx.items # <<>> /\ lx'.items = Tail(lx.items)

\* a state step has run on the drained queue, and all it emitted found room
Emitted == lx.items = <<>> /\ Len(lx'.items) < ItemsCapacity

\* nextItem can go on: an item is waiting or there is a state to run
NextItemCanStep == pc \in Waiting => (lx.items # <<>> \/ lx.state # nil)

\* C28: the number of items queued and not yet consumed stays below the
\* capacity of the channel, so emit never blocks, and nextItem, called by
\* the parser, can always take an item or run a state step.  The queue
\* changes only by a state step that runs on the empty queue and emits
\* fewer items than the capacity, or by the delivery of its front item:
\* items reach the parser in the order of their emission.
C28_QueueBound ==
    /\ [](Len(lx.items) < ItemsCapacity /\ NextItemCanStep)
    /\ [][lx'.items = lx.items \/ Delivered \/ Emitted]_vars

\* one state step has emitted two items and none of them is consumed yet
C28_Witness == pc \in Waiting /\ Len(lx.items) = 2

====
